---- MODULE Spec2Model ----
(***************************************************************************)
(* Model of the transactional storages (ExtendedMemoryStorage,             *)
(* ExtendedJSONStorage) of database_updated.py.py and of the caching       *)
(* middleware (CachingMiddleware) of middlewares_updated.py.               *)
(*                                                                         *)
(* One storage instance is modelled; its backend is fixed at construction. *)
(* Python object identity is modelled where the code depends on it: the    *)
(* memory backend's snapshot is a shallow dict.copy(), so the table        *)
(* objects of the snapshot are the table objects of the live state until   *)
(* the live state is replaced.                                             *)
(***************************************************************************)
EXTENDS Integers, FiniteSets, Sequences, TLC

----------------------------------------------------------------------------
(* Bounds of the model *)

\* document field values are 1..MaxVal
MaxVal == 2
\* CachingMiddleware.WRITE_CACHE_SIZE (1000 in middlewares_updated.py:35),
\* scaled down: the flush threshold of the modelled middleware
WRITE_CACHE_SIZE == 2

----------------------------------------------------------------------------
(* The value universe: State, tables, documents *)

TableNames == {"_default", "t"}
\* the table names in the order json.dump writes them
NameSeq == <<"_default", "t">>
DocIds == {1}
Vals == 1..MaxVal

\* A document is modelled by the value of its one field; NoDoc marks a doc
\* id that is not a key of the table.
Docs == Vals
NoDoc == 0

\* A table: doc id -> document.
EmptyDocs == [i \in DocIds |-> NoDoc]
NoTable == [present |-> FALSE, docs |-> EmptyDocs]
EmptyTable == [present |-> TRUE, docs |-> EmptyDocs]
NoTables == [n \in TableNames |-> NoTable]

\* What read() returns: None, or a dict table name -> table.
None == [some |-> FALSE, tabs |-> NoTables]
Dict(tabs) == [some |-> TRUE, tabs |-> tabs]
EmptyDict == Dict(NoTables)

\* The dict {n: {str(i): d}}
OneDoc(n, i, d) ==
    Dict([NoTables EXCEPT ![n] = [present |-> TRUE,
                                  docs |-> [EmptyDocs EXCEPT ![i] = d]]])

\* The states a caller passes to write(): {} and {n: {i: d}}
WriteVals ==
    {EmptyDict}
      \cup {OneDoc(n, i, d) : n \in TableNames, i \in DocIds, d \in Docs}

\* `x or {}`: None and the empty dict are falsy
OrEmpty(x) == IF x.some /\ x # EmptyDict THEN x ELSE EmptyDict

\* the table names that are keys of x
Keys(x) == IF x.some THEN {n \in TableNames : x.tabs[n].present} ELSE {}

----------------------------------------------------------------------------
(* json.dump / json.load and files *)

\* The text of a JSON object: its members in order, each <<key, value>>.
\* A table's text: the <<doc id, document>> members of its docs.
DumpDocs(docs) ==
    SelectSeq([i \in 1..Cardinality(DocIds) |-> <<i, docs[i]>>],
              LAMBDA m : m[2] # NoDoc)
DumpTables(tabs) ==
    LET all == [k \in 1..Len(NameSeq) |->
                   <<NameSeq[k], tabs[NameSeq[k]].present,
                     DumpDocs(tabs[NameSeq[k]].docs)>>]
        kept == SelectSeq(all, LAMBDA m : m[2])
    IN  [k \in 1..Len(kept) |-> <<kept[k][1], kept[k][3]>>]

\* A file's bytes: zero bytes, or JSON text.
EmptyText == [len0 |-> TRUE, members |-> <<>>]
JsonDumps(x) == [len0 |-> FALSE, members |-> DumpTables(x.tabs)]

LoadDocs(members) ==
    [i \in DocIds |->
        IF \E k \in 1..Len(members) : members[k][1] = i
        THEN members[CHOOSE k \in 1..Len(members) : members[k][1] = i][2]
        ELSE NoDoc]
JsonLoads(text) ==
    Dict([n \in TableNames |->
        IF \E k \in 1..Len(text.members) : text.members[k][1] = n
        THEN [present |-> TRUE,
              docs |-> LoadDocs(text.members[
                  CHOOSE k \in 1..Len(text.members) : text.members[k][1] = n][2])]
        ELSE NoTable])

NoFile == [exists |-> FALSE, text |-> EmptyText]
File(text) == [exists |-> TRUE, text |-> text]

\* The file backend's primary file, its shadow (ExtendedJSONStorage.__init__:
\* path + '.bak') and the path the caller gives backup and restore, which is
\* neither of the two.
PrimaryPath == "db.json"
ShadowPath == "db.json.bak"
BackupPath == "backup.json"
Paths == {PrimaryPath, ShadowPath, BackupPath}

----------------------------------------------------------------------------
(* State of the program *)

VARIABLES
    backend,              \* "memory": ExtendedMemoryStorage, "file": ExtendedJSONStorage
    memory,               \* MemoryStorage.memory
    transaction_backup,   \* ExtendedMemoryStorage._transaction_backup
    aliased,              \* table names whose table object in _transaction_backup
                          \* is the very object the live state holds (dict.copy())
    fs,                   \* the files: path -> file
    cache,                \* CachingMiddleware.cache
    cache_modified_count, \* CachingMiddleware._cache_modified_count
    closed,               \* close() has been called
    last,                 \* the last call: its name, its outcome, and whether a
                          \* transaction was open / had seen only writes before it
    tx,                   \* history: the transaction as the caller sees it
    bk,                   \* history: the state at the last backup(BackupPath)
    mw,                   \* history: the writes made through the middleware
    handles,              \* TinyDB._tables: the names with a cached table handle
    schemas               \* TinyDB._schemas: table name -> schema

vars == <<backend, memory, transaction_backup, aliased, fs, cache,
          cache_modified_count, closed, last, tx, bk, mw, handles, schemas>>

storageVars == <<memory, transaction_backup, aliased, fs>>
cacheVars == <<cache, cache_modified_count>>

\* S: storage.read() at begin_transaction, V: what read() through the
\* middleware returned then, pure: only writes since, wrote: at least one
NoTx == [open |-> FALSE, pure |-> FALSE, wrote |-> FALSE, S |-> None, V |-> None]
NoBk == [valid |-> FALSE, S |-> None]
\* n: the consecutive middleware writes since the counter was 0, start: what
\* the wrapped storage held before them, lastw: the last state written
\* through the middleware, primed: a read or write through the middleware
\* has completed, direct: the wrapped storage was written or rolled back
\* directly after the cache was filled, rolled: the call just made rolled
\* back a transaction of writes only, want: what read() through the
\* middleware returned when that transaction began
NoMw == [n |-> 0, start |-> None, lastw |-> None, primed |-> FALSE,
         direct |-> FALSE, rolled |-> FALSE, want |-> None]

\* A schema is a dict field name -> type name ('name': 'str', 'age': 'int');
\* Absent marks a field name that is not a key.  set: the table name is a
\* key of _schemas.
Fields == {"name", "age"}
Absent == "absent"
TypeOf == [f \in Fields |-> IF f = "name" THEN "str" ELSE "int"]
SchemaDicts == {sch \in [Fields -> {Absent, "str", "int"}] :
                   \A f \in Fields : sch[f] \in {Absent, TypeOf[f]}}
NoSchema == [set |-> FALSE, fields |-> [f \in Fields |-> Absent]]

\* The documents handed to validate_document: field name -> the type of its
\* value, over the schema's field names and one more.
DocFields == Fields \cup {"extra"}
ValidatedDocs == [DocFields -> {Absent, "str", "int"}]
NoFields == [f \in DocFields |-> Absent]

----------------------------------------------------------------------------
(* Storage: read and write of the two backends *)

\* MemoryStorage.read
Memory_read == memory

\* JSONStorage.read: None for a file of size 0, else json.load
JSON_read ==
    LET text == fs[PrimaryPath].text
    IN  IF text.len0 THEN None ELSE JsonLoads(text)

\* storage.read() of the constructed backend
Read == IF backend = "memory" THEN Memory_read ELSE JSON_read

\* MemoryStorage.write: the storage holds the caller's object, which shares
\* nothing with the snapshot
Memory_write(data) ==
    /\ memory' = data
    /\ aliased' = {}
    /\ UNCHANGED <<transaction_backup, fs>>

\* JSONStorage.write: the primary file holds json.dumps(data)
JSON_write(data) ==
    /\ fs' = [fs EXCEPT ![PrimaryPath] = File(JsonDumps(data))]
    /\ UNCHANGED <<memory, transaction_backup, aliased>>

StorageWrite(data) ==
    IF backend = "memory" THEN Memory_write(data) ELSE JSON_write(data)

\* The record of a call: arg is the state passed to write (None otherwise),
\* changed tells whether storage.read() differs after the call, and open,
\* pure, wrote are the transaction's history before the call.  name is the
\* table name the call was given, io the calls it made on the storage
\* beneath it ("-" where the call is itself a call on the storage), doc the
\* document validate_document was given.
CallOn(op, res, arg, name, io) ==
    [op |-> op, res |-> res, arg |-> arg, changed |-> (Read' # Read),
     open |-> tx.open, pure |-> tx.pure, wrote |-> tx.wrote,
     name |-> name, io |-> io, doc |-> NoFields]
Call(op, res, arg) == CallOn(op, res, arg, "-", "-")

----------------------------------------------------------------------------
(* ExtendedMemoryStorage *)

\* begin_transaction: data = self.read() or {}; backup = data.copy().
\* dict.copy() is shallow: the new dict maps every table name of data to the
\* table object data holds.
Memory_begin_transaction ==
    LET data == OrEmpty(Memory_read)
    IN  /\ transaction_backup' = data
        /\ aliased' = Keys(data)
        /\ UNCHANGED <<memory, fs>>

\* commit_transaction
Memory_commit_transaction ==
    /\ transaction_backup' = None
    /\ aliased' = {}
    /\ UNCHANGED <<memory, fs>>

\* mutant: the snapshot is dropped without being written back
Memory_rollback_transaction_NoWrite ==
    /\ transaction_backup' = None
    /\ aliased' = {}
    /\ UNCHANGED <<memory, fs>>

\* mutant: the snapshot is written back without the `is not None` test
Memory_rollback_transaction_Unguarded ==
    /\ memory' = transaction_backup
    /\ transaction_backup' = None
    /\ aliased' = {}
    /\ UNCHANGED fs

\* rollback_transaction
Memory_rollback_transaction ==
    IF transaction_backup.some
    THEN /\ memory' = transaction_backup
         /\ transaction_backup' = None
         /\ aliased' = {}
         /\ UNCHANGED fs
    ELSE UNCHANGED storageVars

\* backup: json.dump(data) to backup_path unless data is None
Memory_backup(path) ==
    LET data == Memory_read
    IN  /\ fs' = IF data.some
                 THEN [fs EXCEPT ![path] = File(JsonDumps(data))]
                 ELSE fs
        /\ UNCHANGED <<memory, transaction_backup, aliased>>

\* restore: if the path exists, write(json.load(f)); json.load raises on a
\* file of zero bytes
Memory_restore_result(path) ==
    IF fs[path].exists /\ fs[path].text.len0 THEN "JSONDecodeError" ELSE "ok"
Memory_restore(path) ==
    IF fs[path].exists /\ ~fs[path].text.len0
    THEN /\ memory' = JsonLoads(fs[path].text)
         /\ aliased' = {}
         /\ UNCHANGED <<transaction_backup, fs>>
    ELSE UNCHANGED storageVars

----------------------------------------------------------------------------
(* ExtendedJSONStorage *)

\* shutil.copyfile(src, dst): src is opened first (FileNotFoundError, dst
\* untouched, when it does not exist)
CopyFile(src, dst) ==
    IF fs[src].exists THEN [fs EXCEPT ![dst] = fs[src]] ELSE fs
CopyResult(src) == IF fs[src].exists THEN "ok" ELSE "FileNotFoundError"

\* begin_transaction: copy the primary file to the shadow path
JSON_begin_transaction ==
    /\ fs' = CopyFile(PrimaryPath, ShadowPath)
    /\ UNCHANGED <<memory, transaction_backup, aliased>>

\* mutant: commit copies the shadow file back before removing it
JSON_commit_transaction_Restoring ==
    /\ fs' = IF fs[ShadowPath].exists
             THEN [fs EXCEPT ![PrimaryPath] = fs[ShadowPath],
                             ![ShadowPath] = NoFile]
             ELSE fs
    /\ UNCHANGED <<memory, transaction_backup, aliased>>

\* commit_transaction: remove the shadow file if it exists
JSON_commit_transaction ==
    /\ fs' = IF fs[ShadowPath].exists
             THEN [fs EXCEPT ![ShadowPath] = NoFile]
             ELSE fs
    /\ UNCHANGED <<memory, transaction_backup, aliased>>

\* rollback_transaction: if the shadow file exists, copy it over the primary
\* file and remove it
JSON_rollback_transaction ==
    /\ fs' = IF fs[ShadowPath].exists
             THEN [fs EXCEPT ![PrimaryPath] = fs[ShadowPath],
                             ![ShadowPath] = NoFile]
             ELSE fs
    /\ UNCHANGED <<memory, transaction_backup, aliased>>

\* backup: copy the primary file to backup_path
JSON_backup(path) ==
    /\ fs' = CopyFile(PrimaryPath, path)
    /\ UNCHANGED <<memory, transaction_backup, aliased>>

\* mutant: the arguments of copyfile are swapped
JSON_restore_Swapped(path) ==
    /\ fs' = CopyFile(PrimaryPath, path)
    /\ UNCHANGED <<memory, transaction_backup, aliased>>

\* restore: copy backup_path over the primary file
JSON_restore(path) ==
    /\ fs' = CopyFile(path, PrimaryPath)
    /\ UNCHANGED <<memory, transaction_backup, aliased>>

----------------------------------------------------------------------------
(* CachingMiddleware *)

\* read: what it returns (the cache, primed from the wrapped storage when it
\* is None)
CachingMiddleware_read_value == IF cache.some THEN cache ELSE Read

\* read: the call it makes on the wrapped storage (none when the cache is
\* not None)
CachingMiddleware_read_io == IF cache.some THEN "none" ELSE "read"

\* read
CachingMiddleware_read ==
    /\ cache' = CachingMiddleware_read_value
    /\ UNCHANGED <<cache_modified_count, storageVars>>

\* mutant: flush writes and leaves the counter as it was
CachingMiddleware_flush_NoReset(c, n) ==
    IF n > 0
    THEN /\ StorageWrite(c)
         /\ cache_modified_count' = n
    ELSE /\ UNCHANGED storageVars
         /\ cache_modified_count' = n

\* mutant: flush resets the counter and writes nothing
CachingMiddleware_flush_NoWrite(c, n) ==
    /\ UNCHANGED storageVars
    /\ cache_modified_count' = 0

\* flush, with the cache c and the counter n it finds
CachingMiddleware_flush(c, n) ==
    IF n > 0
    THEN /\ StorageWrite(c)
         /\ cache_modified_count' = 0
    ELSE /\ UNCHANGED storageVars
         /\ cache_modified_count' = n

\* mutant: every write goes through to the wrapped storage
CachingMiddleware_write_Through(data) ==
    /\ cache' = data
    /\ CachingMiddleware_flush(data, cache_modified_count + 1)

\* mutant: the flush test is > instead of >=
CachingMiddleware_write_OffByOne(data) ==
    /\ cache' = data
    /\ IF cache_modified_count + 1 > WRITE_CACHE_SIZE
       THEN CachingMiddleware_flush(data, cache_modified_count + 1)
       ELSE /\ cache_modified_count' = cache_modified_count + 1
            /\ UNCHANGED storageVars

\* write
CachingMiddleware_write(data) ==
    /\ cache' = data
    /\ IF cache_modified_count + 1 >= WRITE_CACHE_SIZE
       THEN CachingMiddleware_flush(data, cache_modified_count + 1)
       ELSE /\ cache_modified_count' = cache_modified_count + 1
            /\ UNCHANGED storageVars

\* mutant: close does not flush
CachingMiddleware_close_NoFlush ==
    /\ closed' = TRUE
    /\ UNCHANGED <<cache, cache_modified_count, storageVars>>

\* close: flush, then close the wrapped storage
CachingMiddleware_close ==
    /\ CachingMiddleware_flush(cache, cache_modified_count)
    /\ closed' = TRUE
    /\ UNCHANGED cache

----------------------------------------------------------------------------
(* The calls made on the storage (TinyDB delegates each to self.storage) *)

\* history: a call other than write inside an open transaction
Impure == IF tx.open THEN [tx EXCEPT !.pure = FALSE] ELSE tx
\* history: a write inside an open transaction
Wrote == IF tx.open THEN [tx EXCEPT !.wrote = TRUE] ELSE tx
\* history: a call that is not a write through the middleware ends the run
\* of consecutive middleware writes
EndRun == [mw EXCEPT !.n = 0, !.start = None, !.rolled = FALSE, !.want = None]
\* history: a call made on the wrapped storage itself that can change it
Direct == [EndRun EXCEPT !.direct = mw.direct \/ cache.some]

\* storage.write(data)
write(data) ==
    /\ ~closed
    /\ UNCHANGED <<handles, schemas, backend, cache, cache_modified_count, closed, bk>>
    /\ StorageWrite(data)
    /\ last' = Call("write", "ok", data)
    /\ mw' = Direct
    /\ tx' = Wrote

\* TinyDB.begin_transaction
begin_transaction ==
    /\ ~closed
    /\ UNCHANGED <<handles, schemas, backend, cache, cache_modified_count, closed, bk>>
    /\ IF backend = "memory" THEN Memory_begin_transaction
                             ELSE JSON_begin_transaction
    /\ last' = Call("begin_transaction", "ok", None)
    /\ mw' = EndRun
    /\ tx' = [open |-> TRUE, pure |-> TRUE, wrote |-> FALSE, S |-> Read,
              V |-> CachingMiddleware_read_value]

\* TinyDB.commit_transaction
commit_transaction ==
    /\ ~closed
    /\ UNCHANGED <<handles, schemas, backend, cache, cache_modified_count, closed, bk>>
    /\ IF backend = "memory" THEN Memory_commit_transaction
                             ELSE JSON_commit_transaction
    /\ last' = Call("commit_transaction", "ok", None)
    /\ mw' = EndRun
    /\ tx' = NoTx

\* TinyDB.rollback_transaction
rollback_transaction ==
    /\ ~closed
    /\ UNCHANGED <<handles, schemas, backend, cache, cache_modified_count, closed, bk>>
    /\ IF backend = "memory" THEN Memory_rollback_transaction
                             ELSE JSON_rollback_transaction
    /\ last' = Call("rollback_transaction", "ok", None)
    /\ mw' = [Direct EXCEPT !.rolled = tx.open /\ tx.pure,
                            !.want = IF tx.open /\ tx.pure THEN tx.V ELSE None]
    /\ tx' = NoTx

\* TinyDB.backup
backup(path) ==
    /\ ~closed
    /\ UNCHANGED <<handles, schemas, backend, cache, cache_modified_count, closed>>
    /\ IF backend = "memory" THEN Memory_backup(path) ELSE JSON_backup(path)
    /\ last' = Call("backup", "ok", None)
    /\ mw' = EndRun
    /\ bk' = [valid |-> Read.some, S |-> Read]
    /\ tx' = Impure

\* TinyDB.restore
restore(path) ==
    /\ ~closed
    /\ UNCHANGED <<handles, schemas, backend, cache, cache_modified_count, closed, bk>>
    /\ IF backend = "memory" THEN Memory_restore(path) ELSE JSON_restore(path)
    /\ last' = Call("restore",
                    IF backend = "memory" THEN Memory_restore_result(path)
                                          ELSE CopyResult(path),
                    None)
    /\ mw' = EndRun
    /\ tx' = Impure

\* The caller updates, in place, document i of table n of the object that
\* MemoryStorage.read() returned (the live state itself).  A table object
\* that the snapshot shares changes in the snapshot too.
SetDoc(x, n, i, d) == [x EXCEPT !.tabs[n].docs[i] = d]
MutateInPlace(n, i, d) ==
    /\ ~closed
    /\ UNCHANGED <<handles, schemas, backend, aliased, fs, cache, cache_modified_count, closed, bk>>
    /\ backend = "memory"
    /\ memory.some
    /\ memory.tabs[n].present
    /\ memory.tabs[n].docs[i] \notin {NoDoc, d}
    /\ memory' = SetDoc(memory, n, i, d)
    /\ transaction_backup' = IF n \in aliased
                              THEN SetDoc(transaction_backup, n, i, d)
                              ELSE transaction_backup
    /\ last' = Call("mutate", "ok", None)
    /\ mw' = EndRun
    /\ tx' = Impure

----------------------------------------------------------------------------
(* The transactional storage used directly *)

\* After construction: MemoryStorage.memory is None and no snapshot is held;
\* JSONStorage has created the primary file, empty.
Init ==
    /\ backend \in {"memory", "file"}
    /\ memory = None
    /\ transaction_backup = None
    /\ aliased = {}
    /\ fs = [p \in Paths |->
               IF backend = "file" /\ p = PrimaryPath THEN File(EmptyText)
                                                      ELSE NoFile]
    /\ cache = None
    /\ cache_modified_count = 0
    /\ closed = FALSE
    /\ last = [op |-> "init", res |-> "ok", arg |-> None, changed |-> FALSE,
               open |-> FALSE, pure |-> FALSE, wrote |-> FALSE,
               name |-> "-", io |-> "-", doc |-> NoFields]
    /\ tx = NoTx
    /\ bk = NoBk
    /\ mw = NoMw
    /\ handles = {}
    /\ schemas = [n \in TableNames |-> NoSchema]

Next ==
    \/ \E data \in WriteVals : write(data)
    \/ begin_transaction
    \/ commit_transaction
    \/ rollback_transaction
    \/ backup(BackupPath)
    \/ restore(BackupPath)
    \/ \E n \in TableNames, i \in DocIds, d \in Docs : MutateInPlace(n, i, d)

Spec == Init /\ [][Next]_vars

----------------------------------------------------------------------------
(* Properties of the transactional storage, under Spec *)

\* read() with absent counted as the empty mapping
AsMapping(x) == OrEmpty(x)

\* C1: for both backends, after begin_transaction and then only write calls,
\* rollback_transaction leaves read() equal to the state held immediately
\* before begin_transaction (absent counted as the empty mapping).
C1_RollbackRestores ==
    [][(last'.op = "rollback_transaction" /\ tx.open /\ tx.pure)
          => AsMapping(Read') = AsMapping(tx.S)]_vars

\* C1 witness: a rollback of a transaction that saw only writes, at least
\* one, and that changed what read() returns.
C1_Witness ==
    /\ last.op = "rollback_transaction"
    /\ last.open /\ last.pure /\ last.wrote /\ last.changed

\* C2: for both backends, commit_transaction never changes what read()
\* returns, and directly after write(S2) inside a transaction it leaves
\* read() = S2.
C2_CommitKeepsState ==
    [][last'.op = "commit_transaction"
          => /\ Read' = Read
             /\ (last.op = "write" /\ tx.open) => Read' = last.arg]_vars

\* C2 witness: begin_transaction, writes only, commit_transaction, with a
\* state that differs from the one before begin.
C2_Witness ==
    /\ last.op = "commit_transaction"
    /\ last.open /\ last.pure /\ last.wrote
    /\ Read.some /\ Read # EmptyDict

\* C3: begin_transaction called while a transaction is open fails with
\* TransactionAlreadyOpen.
C3_NestedBeginFails ==
    (last.op = "begin_transaction" /\ last.open)
        => last.res = "TransactionAlreadyOpen"

\* C4: for both backends, restore(p) after a backup(p) taken in a non-absent
\* state S leaves read() = S, whatever was written in between and whether or
\* not a transaction is open.
C4_BackupRestoreRoundTrip ==
    [][(last'.op = "restore" /\ bk.valid) => Read' = bk.S]_vars

\* C4 witness: a restore, inside an open transaction, that brought back the
\* backed-up state after the state had been changed.
C4_Witness ==
    /\ last.op = "restore" /\ last.changed /\ last.open
    /\ bk.valid /\ Read = bk.S /\ Read # EmptyDict

\* C9: the memory backend's snapshot is a deep copy: an in-place change of a
\* table or document of the live state does not change the snapshot, and
\* rollback_transaction restores the pre-begin contents whatever was written
\* or changed in place during the transaction.
C9_SnapshotIsDeepCopy ==
    [][/\ last'.op = "mutate" => transaction_backup' = transaction_backup
       /\ (last'.op = "rollback_transaction" /\ backend = "memory" /\ tx.open)
             => AsMapping(Read') = AsMapping(tx.S)]_vars

\* C10: for both backends, commit_transaction and rollback_transaction called
\* when no transaction is open raise nothing and leave read() unchanged.
C10_NoOpWithoutTransaction ==
    [][(last'.op \in {"commit_transaction", "rollback_transaction"} /\ ~tx.open)
          => (last'.res = "ok" /\ Read' = Read)]_vars

\* C10 witness: a rollback with no transaction open, after an earlier
\* transaction was closed, on a storage that holds a document.
C10_Witness ==
    /\ last.op = "rollback_transaction" /\ ~last.open
    /\ Read.some /\ Read # EmptyDict
    /\ ~fs[ShadowPath].exists /\ ~transaction_backup.some

\* C11: for both backends, restore(path) with a path that does not exist
\* fails with a not-found error and leaves the storage as it was.
C11_RestoreMissingPathFails ==
    [][(last'.op = "restore" /\ ~fs[BackupPath].exists)
          => (last'.res = "FileNotFoundError" /\ storageVars' = storageVars)]_vars

\* What begin_transaction keeps for rollback: the snapshot held by the
\* memory backend, the shadow file of the file backend.
HasSnapshot ==
    IF backend = "memory" THEN transaction_backup.some ELSE fs[ShadowPath].exists
SnapshotValue ==
    IF backend = "memory" THEN transaction_backup ELSE fs[ShadowPath]

\* C15: while a transaction is open no write, backup, restore or further
\* begin_transaction changes the snapshot or shadow file, which stays the one
\* taken when the transaction was first opened; after commit_transaction or
\* rollback_transaction no snapshot or shadow file remains.
C15_SnapshotStable ==
    [][/\ (tx.open /\ last'.op \in {"write", "backup", "restore",
                                     "begin_transaction"})
             => SnapshotValue' = SnapshotValue
       /\ last'.op \in {"commit_transaction", "rollback_transaction"}
             => ~HasSnapshot']_vars

----------------------------------------------------------------------------
(* The file backend with a copy that fails *)

\* ExtendedJSONStorage.begin_transaction when shutil.copyfile raises OSError:
\* either before the shadow file was opened for writing (nothing changes) or
\* after it was created or truncated and before any byte was copied.  The
\* code has no handler: the exception reaches the caller and whatever the
\* copy left at the shadow path stays there.
JSON_begin_transaction_fails(created) ==
    /\ fs' = IF created THEN [fs EXCEPT ![ShadowPath] = File(EmptyText)] ELSE fs
    /\ UNCHANGED <<memory, transaction_backup, aliased>>

begin_transaction_fails ==
    /\ ~closed
    /\ UNCHANGED <<handles, schemas, backend, cache, cache_modified_count, closed, bk, tx>>
    /\ backend = "file"
    /\ \E created \in BOOLEAN : JSON_begin_transaction_fails(created)
    /\ last' = Call("begin_transaction", "OSError", None)
    /\ mw' = EndRun

FaultNext ==
    \/ Next
    \/ begin_transaction_fails

FaultSpec == Init /\ [][FaultNext]_vars

\* C17: a begin_transaction of the file backend that fails during the copy,
\* with no shadow file before it, leaves no shadow file, and a
\* rollback_transaction that follows it leaves the primary file unchanged.
C17_FailedBeginLeavesNoShadow ==
    [][/\ (last'.op = "begin_transaction" /\ last'.res = "OSError"
              /\ ~fs[ShadowPath].exists)
             => ~fs'[ShadowPath].exists
       /\ (last.op = "begin_transaction" /\ last.res = "OSError" /\ ~last.open
              /\ last'.op = "rollback_transaction")
             => fs'[PrimaryPath] = fs[PrimaryPath]]_vars

----------------------------------------------------------------------------
(* The caching middleware wrapped around the transactional storage *)

\* CachingMiddleware.read()
cache_read ==
    /\ ~closed
    /\ UNCHANGED <<handles, schemas, backend, closed, bk>>
    /\ CachingMiddleware_read
    /\ last' = CallOn("cache.read", "ok", None, "-", CachingMiddleware_read_io)
    /\ tx' = Impure
    /\ mw' = [EndRun EXCEPT !.primed = TRUE]

\* CachingMiddleware.write(data)
cache_write(data) ==
    /\ ~closed
    /\ UNCHANGED <<handles, schemas, backend, closed, bk>>
    /\ CachingMiddleware_write(data)
    /\ last' = Call("cache.write", "ok", data)
    /\ tx' = Wrote
    /\ mw' = [n |-> IF cache_modified_count = 0 THEN 1
                    ELSE IF mw.n > 0 THEN mw.n + 1 ELSE 0,
              start |-> IF cache_modified_count = 0 THEN Read ELSE mw.start,
              lastw |-> data, primed |-> TRUE, direct |-> mw.direct,
              rolled |-> FALSE, want |-> None]

\* CachingMiddleware.flush()
cache_flush ==
    /\ ~closed
    /\ UNCHANGED <<handles, schemas, backend, closed, bk, cache>>
    /\ CachingMiddleware_flush(cache, cache_modified_count)
    /\ last' = Call("cache.flush", "ok", None)
    /\ tx' = Impure
    /\ mw' = EndRun

\* CachingMiddleware.close()
cache_close ==
    /\ ~closed
    /\ UNCHANGED <<handles, schemas, backend, bk>>
    /\ CachingMiddleware_close
    /\ last' = Call("cache.close", "ok", None)
    /\ tx' = Impure
    /\ mw' = EndRun

\* TinyDB.begin_transaction / commit_transaction / rollback_transaction when
\* self.storage is the CachingMiddleware: Middleware and CachingMiddleware
\* define none of the three and no __getattr__, so the attribute lookup on
\* self.storage raises AttributeError and nothing is called.
TransactionCalls ==
    {"db.begin_transaction", "db.commit_transaction", "db.rollback_transaction"}
cached_transaction_call(op) ==
    /\ ~closed
    /\ UNCHANGED <<handles, schemas, backend, closed, bk, cacheVars, storageVars, tx>>
    /\ last' = Call(op, "AttributeError", None)
    /\ mw' = EndRun

\* The states written in the runs with the middleware: those of WriteVals
\* that use the default table only.
CacheVals == {x \in WriteVals : Keys(x) \subseteq {"_default"}}

\* The calls of a client that holds the middleware: the middleware's own
\* operations, the facade's transaction calls, and calls made on the wrapped
\* storage itself (middleware.storage).
CacheNext ==
    \/ cache_read
    \/ \E data \in CacheVals : cache_write(data)
    \/ cache_flush
    \/ cache_close
    \/ \E op \in TransactionCalls : cached_transaction_call(op)
    \/ \E data \in CacheVals : write(data)
    \/ begin_transaction
    \/ commit_transaction
    \/ rollback_transaction

CacheSpec == Init /\ [][CacheNext]_vars

----------------------------------------------------------------------------
(* Properties of the caching middleware, under CacheSpec *)

\* C5: after a write(X) through the middleware that does not bring the
\* counter to the threshold, read() through the middleware returns X and
\* read() on the wrapped storage returns what it returned before the write.
C5_ReadAfterWrite ==
    [][(last'.op = "cache.write"
            /\ cache_modified_count + 1 < WRITE_CACHE_SIZE)
          => (CachingMiddleware_read_value' = last'.arg /\ Read' = Read)]_vars

\* C5 witness: a buffered write: the middleware returns the written state,
\* the wrapped storage still holds another one.
C5_Witness ==
    /\ last.op = "cache.write"
    /\ cache_modified_count > 0
    /\ CachingMiddleware_read_value = last.arg
    /\ Read # last.arg

\* C6: starting with the counter at 0, after WRITE_CACHE_SIZE consecutive
\* writes through the middleware the wrapped storage holds the last written
\* state and the counter is 0; after WRITE_CACHE_SIZE - 1 it still holds
\* what it held before the first of them.
C6_ThresholdFlush ==
    /\ mw.n = WRITE_CACHE_SIZE
          => (Read = mw.lastw /\ cache_modified_count = 0)
    /\ (mw.n > 0 /\ mw.n = WRITE_CACHE_SIZE - 1) => Read = mw.start

\* C6 witness: the write that completes the run flushed a new state to the
\* wrapped storage.
C6_Witness ==
    /\ last.op = "cache.write"
    /\ mw.n = WRITE_CACHE_SIZE
    /\ last.changed
    /\ Read # mw.start

\* C7: close() with the counter > 0 leaves the wrapped storage holding the
\* last state written through the middleware; close() with the counter at 0
\* writes nothing to the wrapped storage.
C7_CloseFlushes ==
    [][last'.op = "cache.close"
          => /\ cache_modified_count > 0 => Read' = mw.lastw
             /\ cache_modified_count = 0 => storageVars' = storageVars]_vars

\* C7 witness: a close that made a pending write visible in the wrapped
\* storage.
C7_Witness ==
    /\ last.op = "cache.close"
    /\ closed
    /\ last.changed
    /\ Read = mw.lastw

\* C8: with the middleware between the facade and the storage, the facade's
\* begin/commit/rollback are forwarded to the wrapped storage, and after
\* begin, writes through the middleware and rollback, read() through the
\* middleware returns the pre-begin state.
C8_RollbackClearsBuffer ==
    [][/\ last'.op \in TransactionCalls => last'.res = "ok"
       /\ (last'.op \in {"db.rollback_transaction", "rollback_transaction"}
              /\ tx.open /\ tx.pure)
             => AsMapping(CachingMiddleware_read_value') = AsMapping(tx.V)]_vars

\* The middleware's own operations
CacheCalls == {"cache.read", "cache.write", "cache.flush", "cache.close"}

\* C12: once a read or write through the middleware has completed, no later
\* read() through it calls the wrapped storage's read(), also when the first
\* read() found the wrapped storage absent; the later read() returns the
\* cache as it was.
C12_ReadsStayInCache ==
    [][(last'.op = "cache.read" /\ mw.primed)
          => (last'.io = "none" /\ cache' = cache)]_vars

\* C16: after a transaction of writes only is rolled back and the middleware
\* is then closed, the wrapped storage holds what read() through the
\* middleware returned before begin_transaction; the close flushes no write
\* of the rolled-back transaction.
C16_RollbackThenClose ==
    [][(last'.op = "cache.close" /\ mw.rolled)
          => AsMapping(Read') = AsMapping(mw.want)]_vars

\* C19: after every read, write, flush or close of the middleware the counter
\* c satisfies 0 <= c < WRITE_CACHE_SIZE; flush and close leave it at 0; the
\* wrapped storage changes only in a call that flushed, which leaves the
\* counter at 0; read changes neither the wrapped storage nor the counter.
C19_CounterBelowThreshold ==
    [][last'.op \in CacheCalls
          => /\ cache_modified_count' \in 0..(WRITE_CACHE_SIZE - 1)
             /\ last'.op \in {"cache.flush", "cache.close"}
                   => cache_modified_count' = 0
             /\ storageVars' # storageVars => cache_modified_count' = 0
             /\ last'.op = "cache.read"
                   => /\ storageVars' = storageVars
                      /\ cache_modified_count' = cache_modified_count]_vars

\* C19 witness: a flush() that found the counter > 0, wrote the cache to the
\* wrapped storage and reset the counter.
C19_Witness ==
    /\ last.op = "cache.flush"
    /\ last.changed
    /\ cache_modified_count = 0
    /\ Read = cache

\* C20: as long as the wrapped storage is changed through the middleware
\* only, whenever the cache is filled and the counter is 0 the wrapped
\* storage holds the cache.
C20_CleanCacheEqualsStorage ==
    (cache.some /\ cache_modified_count = 0 /\ ~mw.direct) => Read = cache

\* C20 witness: a write through the middleware reached the threshold, and
\* the wrapped storage, not written directly, now holds the cache.
C20_Witness ==
    /\ last.op = "cache.write"
    /\ cache.some /\ cache # EmptyDict
    /\ cache_modified_count = 0
    /\ ~mw.direct
    /\ Read = cache

----------------------------------------------------------------------------
(* The facade: schemas *)

\* TinyDB.default_table_name
default_table_name == "_default"

\* storage.write(x), x being the object read() returned (or a new dict when
\* it returned None) with the entry of table name replaced or deleted: in
\* the memory backend the other tables stay the objects they were.
WriteBack(x, name) ==
    IF backend = "memory"
    THEN /\ memory' = x
         /\ aliased' = aliased \ {name}
         /\ UNCHANGED <<transaction_backup, fs>>
    ELSE JSON_write(x)

\* Table (the table layer): the documents of table name, the doc ids free
\* in it, and the read-modify-write of the whole state that every table
\* operation ends with.
Table_docs(name) ==
    IF Read.some /\ Read.tabs[name].present THEN Read.tabs[name].docs
                                             ELSE EmptyDocs
FreeIds(name) == {i \in DocIds : Table_docs(name)[i] = NoDoc}
Table_update(name, docs) ==
    WriteBack(Dict([(IF Read.some THEN Read.tabs ELSE NoTables)
                       EXCEPT ![name] = [present |-> TRUE, docs |-> docs]]),
              name)

\* Table.insert(document): the document is stored under a new doc id
Table_insert(name, document) ==
    LET i == CHOOSE j \in FreeIds(name) : \A k \in FreeIds(name) : j <= k
    IN  Table_update(name, [Table_docs(name) EXCEPT ![i] = document])

\* Table.remove(cond): every document that satisfies cond is removed
Table_remove(name, cond) ==
    Table_update(name, [i \in DocIds |->
                           IF Table_docs(name)[i] \in cond THEN NoDoc
                           ELSE Table_docs(name)[i]])

\* TinyDB.table(name): the handle is created on the first call and cached
TinyDB_table(name) == handles \cup {name}

\* mutant: the facade's insert and remove act on another table
TinyDB_forwarded_table_Other == "t"

\* The table the facade's insert and remove are forwarded to
TinyDB_forwarded_table == default_table_name

\* TinyDB.insert
insert(document) ==
    /\ ~closed
    /\ UNCHANGED <<schemas, backend, cache, cache_modified_count, closed, bk>>
    /\ FreeIds(TinyDB_forwarded_table) # {}
    /\ handles' = TinyDB_table(TinyDB_forwarded_table)
    /\ Table_insert(TinyDB_forwarded_table, document)
    /\ last' = CallOn("insert", "ok", None, "-", "read+write")
    /\ mw' = Direct
    /\ tx' = Wrote

\* TinyDB.remove
remove(cond) ==
    /\ ~closed
    /\ UNCHANGED <<schemas, backend, cache, cache_modified_count, closed, bk>>
    /\ handles' = TinyDB_table(TinyDB_forwarded_table)
    /\ Table_remove(TinyDB_forwarded_table, cond)
    /\ last' = CallOn("remove", "ok", None, "-", "read+write")
    /\ mw' = Direct
    /\ tx' = Wrote

\* the keys of a schema and of a document
SchemaKeys(sch) == {f \in Fields : sch[f] # Absent}
DocKeys(document) == {f \in DocFields : document[f] # Absent}

\* TinyDB.set_schema
TinyDB_set_schema(table_name, schema) ==
    schemas' = [schemas EXCEPT ![table_name] = [set |-> TRUE, fields |-> schema]]

\* mutant: validate_document compares the type of each value with the schema
TinyDB_validate_document_Typed(table_name, document) ==
    LET schema == schemas[table_name].fields
    IN  \A field \in SchemaKeys(schema) : document[field] = schema[field]

\* TinyDB.validate_document: _schemas.get(table_name, {}), then
\* all(field in document for field in schema)
TinyDB_validate_document(table_name, document) ==
    LET schema == IF schemas[table_name].set THEN schemas[table_name].fields
                                             ELSE NoSchema.fields
    IN  \A field \in SchemaKeys(schema) : field \in DocKeys(document)

set_schema(table_name, schema) ==
    /\ ~closed
    /\ UNCHANGED <<handles, backend, cache, cache_modified_count, closed, bk,
                   storageVars, tx>>
    /\ TinyDB_set_schema(table_name, schema)
    /\ last' = CallOn("set_schema", "ok", None, table_name, "none")
    /\ mw' = EndRun

validate_document(table_name, document) ==
    /\ ~closed
    /\ UNCHANGED <<handles, schemas, backend, cache, cache_modified_count, closed,
                   bk, storageVars, tx>>
    /\ last' = [CallOn("validate_document",
                       IF TinyDB_validate_document(table_name, document)
                       THEN "True" ELSE "False",
                       None, table_name, "none") EXCEPT !.doc = document]
    /\ mw' = EndRun

\* The calls of a client that sets schemas, validates documents and inserts
\* and removes documents of the default table.
SchemaNext ==
    \/ \E n \in TableNames, sch \in SchemaDicts : set_schema(n, sch)
    \/ \E n \in TableNames, document \in ValidatedDocs : validate_document(n, document)
    \/ \E document \in Docs : insert(document)
    \/ \E cond \in SUBSET Docs : remove(cond)

SchemaSpec == Init /\ [][SchemaNext]_vars

\* C13: validate_document(table, doc) is true exactly when every key of the
\* schema set for the table is a key of doc, whatever the types of the
\* values and whatever other keys doc has; it is true for every doc when no
\* schema is set for the table; set_schema and validate_document leave the
\* storage unchanged.
C13_ValidateIsKeyPresence ==
    [][/\ last'.op = "validate_document"
             => /\ last'.res \in {"True", "False"}
                /\ (last'.res = "True")
                      <=> (schemas[last'.name].set
                             => SchemaKeys(schemas[last'.name].fields)
                                   \subseteq DocKeys(last'.doc))
                /\ storageVars' = storageVars
       /\ last'.op = "set_schema" => storageVars' = storageVars]_vars

\* C13 witness: a document that has every field of the schema, one of them
\* with a value of another type than the schema names, and one more field,
\* was validated as true on a storage that holds a document.
C13_Witness ==
    /\ last.op = "validate_document" /\ last.res = "True"
    /\ schemas[last.name].set
    /\ SchemaKeys(schemas[last.name].fields) = Fields
    /\ \E f \in Fields : last.doc[f] # schemas[last.name].fields[f]
    /\ last.doc["extra"] # Absent
    /\ Read.some /\ Read # EmptyDict

----------------------------------------------------------------------------
(* The facade: tables *)

\* TinyDB.tables: set(self.storage.read() or {})
TinyDB_tables == Keys(OrEmpty(Read))

\* TinyDB.drop_tables: storage.write({}), then _tables.clear()
TinyDB_drop_tables ==
    /\ StorageWrite(EmptyDict)
    /\ handles' = {}

\* mutant: drop_table writes the state back whenever it is not None
TinyDB_drop_table_writes_Always(name) == Read.some

\* TinyDB.drop_table reaches its storage.write: read() returned a state and
\* name is a key of it
TinyDB_drop_table_writes(name) == Read.some /\ name \in Keys(Read)

\* TinyDB.drop_table: the cached handle goes, then del data[name] and
\* storage.write(data) unless one of the two early returns is taken
TinyDB_drop_table(name) ==
    /\ handles' = handles \ {name}
    /\ IF TinyDB_drop_table_writes(name)
       THEN WriteBack([Read EXCEPT !.tabs[name] = NoTable], name)
       ELSE UNCHANGED storageVars

table(name) ==
    /\ ~closed
    /\ UNCHANGED <<schemas, backend, cache, cache_modified_count, closed, bk,
                   storageVars, tx>>
    /\ handles' = TinyDB_table(name)
    /\ last' = CallOn("table", "ok", None, name, "none")
    /\ mw' = EndRun

drop_tables ==
    /\ ~closed
    /\ UNCHANGED <<schemas, backend, cache, cache_modified_count, closed, bk>>
    /\ TinyDB_drop_tables
    /\ last' = CallOn("drop_tables", "ok", None, "-", "write")
    /\ mw' = Direct
    /\ tx' = Impure

drop_table(name) ==
    /\ ~closed
    /\ UNCHANGED <<schemas, backend, cache, cache_modified_count, closed, bk>>
    /\ TinyDB_drop_table(name)
    /\ last' = CallOn("drop_table", "ok", None, name,
                      IF TinyDB_drop_table_writes(name) THEN "read+write"
                                                        ELSE "read")
    /\ mw' = Direct
    /\ tx' = Impure

\* The calls of a client that works with tables: the facade's table calls,
\* insert and remove on the default table, and writes of whole states.
FacadeNext ==
    \/ \E n \in TableNames : table(n)
    \/ \E n \in TableNames : drop_table(n)
    \/ drop_tables
    \/ \E document \in Docs : insert(document)
    \/ \E cond \in SUBSET Docs : remove(cond)
    \/ \E data \in WriteVals : write(data)

FacadeSpec == Init /\ [][FacadeNext]_vars

\* the entry of table n in what read() returned (no entry in None)
Entry(x, n) == x.tabs[n]

\* C14: insert and remove called on the facade change the table '_default'
\* only: the entry of every other table, and so its documents and their
\* number, is after the call what it was before.
C14_OnlyDefaultTableChanges ==
    [][last'.op \in {"insert", "remove"}
          => \A n \in TableNames \ {"_default"} :
                Entry(Read', n) = Entry(Read, n)]_vars

\* C14 witness: an insert changed the state while another table held a
\* document, and that table still holds it.
C14_Witness ==
    /\ last.op = "insert" /\ last.changed
    /\ Read.some
    /\ Entry(Read, "_default").present
    /\ \E i \in DocIds : Entry(Read, "_default").docs[i] # NoDoc
    /\ \E i \in DocIds : Entry(Read, "t").docs[i] # NoDoc

\* C18: drop_table(name) drops the cached handle of name and the entry of
\* name, leaves every other table's entry unchanged, and writes nothing when
\* the state is None or has no entry name; drop_tables() leaves the state {}
\* and no cached handle; after either, tables() is the key set of the state
\* that results.
C18_DropTable ==
    [][/\ last'.op = "drop_table"
             => /\ handles' = handles \ {last'.name}
                /\ Read'.some = Read.some
                /\ ~Entry(Read', last'.name).present
                /\ \A n \in TableNames \ {last'.name} :
                      Entry(Read', n) = Entry(Read, n)
                /\ (~Read.some \/ last'.name \notin Keys(Read))
                      => (last'.io = "read" /\ storageVars' = storageVars)
                /\ TinyDB_tables' = Keys(Read) \ {last'.name}
       /\ last'.op = "drop_tables"
             => /\ Read' = EmptyDict
                /\ handles' = {}
                /\ TinyDB_tables' = {}]_vars

\* C18 witness: drop_table removed a table that had a cached handle and a
\* document, and another table with a document is still there.
C18_Witness ==
    /\ last.op = "drop_table" /\ last.changed
    /\ last.name \notin handles
    /\ handles # {}
    /\ TinyDB_tables # {}
    /\ \E n \in TinyDB_tables, i \in DocIds : Entry(Read, n).docs[i] # NoDoc

====
